---- MODULE Spec2Model ----
(***************************************************************************)
(* Password recovery window (FinalProject/windows/recovery_window.py).     *)
(*                                                                         *)
(* Text is modelled as a sequence of one-character strings, so that        *)
(* str.strip() and str.lower() are computed, character by character.       *)
(* A JSON object is modelled as the sequence of its (key, value) pairs in  *)
(* file order, which is the order dict.items() iterates in.                *)
(***************************************************************************)
EXTENDS Integers, Sequences, FiniteSets, TLC

VARIABLES
    configFile,     \* content of EMAIL_CONFIG_FILE
    dbFile,         \* content of DB_FILE
    window,         \* "unconstructed", "failed" (constructor raised), "Idle", "Closed"
    email_input,    \* text of the QLineEdit
    email_sender,   \* the window's EmailSender, if one was created
    notifications,  \* the show_message calls of the last operation, in order
    raised,         \* the exception that left the last operation
    send,           \* the send_recovery_email call of the last operation
    call,           \* the last operation and its argument
    result          \* what the last direct call of a function returned

vars == <<configFile, dbFile, window, email_input, email_sender,
          notifications, raised, send, call, result>>

----------------------------------------------------------------------------
\* Bounds of the input sets.

\* Most whitespace characters put on either side of a typed email.
MaxPad == 1

\* Most records in a user store.
MaxUsers == 2

----------------------------------------------------------------------------
\* Text.

isspace(c) == c = " "

lower_char(c) ==
    CASE c = "A" -> "a"
      [] c = "B" -> "b"
      [] c = "X" -> "x"
      [] OTHER   -> c

\* A slip one could make: no case conversion at all.
lower_identity(s) == s

\* str.lower()
lower(s) == [i \in 1..Len(s) |-> lower_char(s[i])]

RECURSIVE lstrip(_)
lstrip(s) == IF s # <<>> /\ isspace(Head(s)) THEN lstrip(Tail(s)) ELSE s

RECURSIVE rstrip(_)
rstrip(s) ==
    IF s # <<>> /\ isspace(s[Len(s)]) THEN rstrip(SubSeq(s, 1, Len(s) - 1)) ELSE s

\* str.strip()
strip(s) == rstrip(lstrip(s))

\* re.fullmatch(email_regex, s): local-part@domain, the domain holding a dot
\* between two non-empty labels, no whitespace anywhere, exactly one "@".
email_regex(s) ==
    /\ \A i \in 1..Len(s) : ~isspace(s[i])
    /\ Cardinality({i \in 1..Len(s) : s[i] = "@"}) = 1
    /\ LET at == CHOOSE i \in 1..Len(s) : s[i] = "@"
       IN  /\ at > 1
           /\ \E j \in (at + 2)..(Len(s) - 1) : s[j] = "."

Pad(n) == [i \in 1..n |-> " "]

\* "a@x.c", "A@X.c", "B@x.c" and "a@x", which has no dot in its domain
e_a     == <<"a", "@", "x", ".", "c">>
e_A     == <<"A", "@", "X", ".", "c">>
e_B     == <<"B", "@", "x", ".", "c">>
e_nodot == <<"a", "@", "x">>

\* What the operator can type: nothing, or an email, padded with whitespace.
Texts ==
    {Pad(l) \o b \o Pad(r) : l \in 0..MaxPad, r \in 0..MaxPad, b \in {<<>>, e_a, e_B}}

----------------------------------------------------------------------------
\* Exceptions and notifications.

Exc(name, text, arg) == [exc |-> name, text |-> text, arg |-> arg]
NoExc == Exc("none", "", "")

\* show_message(parent, title, message): message is str(e) or a fixed text
\* followed by str(e).
show_message(notes, title, text, e) ==
    Append(notes, [title |-> title, text |-> text, e |-> e])

----------------------------------------------------------------------------
\* The email configuration file.

Absent == [tag |-> "absent", s |-> ""]
Null   == [tag |-> "null", s |-> ""]
Str(s) == [tag |-> "str", s |-> s]

ConfigFiles ==
    {[kind |-> "missing", sender_email |-> Absent, sender_password |-> Absent],
     [kind |-> "undecodable", sender_email |-> Absent, sender_password |-> Absent]}
    \cup
    [kind : {"json"},
     sender_email : {Absent, Null, Str(""), Str("me@g.c")},
     sender_password : {Absent, Str(""), Str(" "), Str("pw")}]

\* dict.get(key): None for an absent key
get(v) == IF v.tag = "absent" THEN Null ELSE v

\* "not v": None and the empty string are falsy
falsy(v) == v.tag # "str" \/ v.s = ""

\* A slip one could make: "and" for "or".
both_falsy(a, b) == falsy(a) /\ falsy(b)

\* "not sender_email or not sender_password"
missing_credentials(a, b) == falsy(a) \/ falsy(b)

NoConfig == [sender_email |-> Null, sender_password |-> Null]

load_config(file) ==
    IF file.kind = "missing" THEN
        [exc   |-> Exc("EmailConfigError", "Config file not found", ""),
         notes |-> show_message(<<>>, "Configuration Error",
                                "Config file not found", NoExc),
         config |-> NoConfig]
    ELSE IF file.kind = "undecodable" THEN
        [exc   |-> Exc("EmailConfigError", "Failed to decode email config",
                       "JSONDecodeError"),
         notes |-> show_message(<<>>, "Configuration Error",
                                "Failed to decode email config",
                                Exc("JSONDecodeError", "", "")),
         config |-> NoConfig]
    ELSE
        LET sender_email    == get(file.sender_email)
            sender_password == get(file.sender_password)
        IN  IF missing_credentials(sender_email, sender_password) THEN
                [exc   |-> Exc("EmailConfigError",
                               "Missing email or password in the configuration file.", ""),
                 notes |-> <<>>,
                 config |-> NoConfig]
            ELSE
                [exc   |-> NoExc,
                 notes |-> <<>>,
                 config |-> [sender_email |-> sender_email,
                             sender_password |-> sender_password]]

----------------------------------------------------------------------------
\* The user store.

Details ==
    {[has_email |-> TRUE, email |-> e, has_password_hash |-> TRUE] :
        e \in {e_A, e_B, e_nodot}}
    \cup {[has_email |-> FALSE, email |-> <<>>, has_password_hash |-> TRUE],
          [has_email |-> TRUE, email |-> e_A, has_password_hash |-> FALSE]}

\* "" is a legal JSON key, and a username that "if user:" takes for None
Entries ==
    [username : {"alice", "bob"}, details : Details]
    \cup {[username |-> "",
           details |-> [has_email |-> TRUE, email |-> e_A, has_password_hash |-> TRUE]]}

\* JSON objects: the keys are distinct
Stores ==
    UNION {{s \in [1..n -> Entries] :
               \A i, j \in 1..n : i # j => s[i].username # s[j].username} :
           n \in 0..MaxUsers}

\* "vanishes": removed between os.path.exists and open
DbFiles ==
    {[kind |-> k, data |-> <<>>] : k \in {"missing", "undecodable", "vanishes"}}
    \cup {[kind |-> "json", data |-> s] : s \in Stores}

missing_fields(details) == ~details.has_email \/ ~details.has_password_hash

\* the checks of one record, in the code's order
record_error(entry) ==
    IF missing_fields(entry.details)
    THEN Exc("DatabaseError", "Missing fields for user", entry.username)
    ELSE IF ~email_regex(entry.details.email)
    THEN Exc("DatabaseError", "Invalid email format for user", entry.username)
    ELSE NoExc

\* A slip one could make: the loop returns after the first record.
validate_first_only(db) ==
    IF db = <<>> THEN NoExc ELSE record_error(db[1])

\* the exception validate_users_db raises, NoExc when it returns True
validate_users_db(db) ==
    LET bad == {i \in 1..Len(db) : record_error(db[i]) # NoExc}
    IN  IF bad = {} THEN NoExc
        ELSE record_error(db[CHOOSE i \in bad : \A j \in bad : i <= j])

\* load_users_db catches every exception: it never raises
load_users_db(file) ==
    IF file.kind = "missing" THEN
        [exc |-> NoExc, data |-> <<>>,
         notes |-> show_message(<<>>, "Error", "Unexpected error",
                                Exc("DatabaseError", "Database file not found", ""))]
    ELSE IF file.kind = "vanishes" THEN
        [exc |-> NoExc, data |-> <<>>,
         notes |-> show_message(<<>>, "File Error", "Database file not found", NoExc)]
    ELSE IF file.kind = "undecodable" THEN
        [exc |-> NoExc, data |-> <<>>,
         notes |-> show_message(<<>>, "JSON Error", "Failed to decode database JSON",
                                Exc("JSONDecodeError", "", ""))]
    ELSE
        LET e == validate_users_db(file.data)
        IN  IF e # NoExc THEN
                [exc |-> NoExc, data |-> <<>>,
                 notes |-> show_message(<<>>, "Error", "Unexpected error", e)]
            ELSE
                [exc |-> NoExc, data |-> file.data, notes |-> <<>>]

\* find_user_by_email: the first record, in iteration order, whose email
\* equals the query, both stripped and lower-cased
find_user_by_email(email, file) ==
    LET q        == lower(strip(email))
        loaded   == load_users_db(file)
        users_db == loaded.data
        found    == {i \in 1..Len(users_db) :
                        lower(strip(users_db[i].details.email)) = q}
    IN  IF found = {} THEN
            [exc |-> Exc("UserNotFoundError", "", ""), username |-> "",
             notes |-> loaded.notes]
        ELSE
            [exc |-> NoExc,
             username |-> users_db[CHOOSE i \in found : \A j \in found : i <= j].username,
             notes |-> loaded.notes]

----------------------------------------------------------------------------
\* EmailSender.

\* What the SMTP server does at each step of one session: "ok" or the
\* exception smtplib raises there.
SmtpSteps ==
    [connect  : {"ok", "SMTPConnectError", "OSError"},
     starttls : {"ok", "SMTPNotSupportedError"},
     login    : {"ok", "SMTPAuthenticationError"},
     sendmail : {"ok", "SMTPRecipientsRefused"},
     quit     : {"ok", "SMTPResponseException", "SMTPServerDisconnected"}]

\* the steps after the first failure are never reached; QUIT is sent by
\* SMTP.__exit__ whenever the with-block was entered
SmtpEnvs ==
    {env \in SmtpSteps :
        /\ env.connect # "ok"
              => env.starttls = "ok" /\ env.login = "ok" /\ env.sendmail = "ok"
                 /\ env.quit = "ok"
        /\ env.starttls # "ok" => env.login = "ok" /\ env.sendmail = "ok"
        /\ env.login # "ok" => env.sendmail = "ok"}

\* the body of the with-block: the first step that raises
with_body(env) ==
    IF env.starttls # "ok" THEN env.starttls
    ELSE IF env.login # "ok" THEN env.login
    ELSE env.sendmail

\* A slip one could make: server.quit() as the last statement of the body
\* instead of a with-block, so that a failing step skips it.
quit_at_end_of_body(body, quit) ==
    IF body # "ok" THEN [open |-> TRUE, exc |-> body]
    ELSE [open |-> FALSE,
          exc |-> IF quit = "SMTPResponseException" THEN quit ELSE "ok"]

\* SMTP.__exit__: QUIT, then close() in a finally; a reply other than 221
\* raises SMTPResponseException, a dropped connection is ignored
with_exit(body, quit) ==
    [open |-> FALSE,
     exc  |-> IF quit = "SMTPResponseException" THEN quit ELSE body]

\* the except clauses of send_recovery_email
translate(underlying) ==
    IF underlying = "ok" THEN NoExc
    ELSE IF underlying = "SMTPAuthenticationError" THEN
        Exc("EmailSendingError",
            "Authentication error: Unable to authenticate with SMTP server.", "")
    ELSE IF underlying = "SMTPConnectError" THEN
        Exc("EmailSendingError",
            "Connection error: Could not connect to SMTP server.", "")
    ELSE
        Exc("EmailSendingError", "Failed to send the recovery email", underlying)

NoSender == [set |-> FALSE, sender_email |-> "", sender_password |-> ""]

NoSend ==
    [called |-> FALSE, recipient |-> <<>>, username |-> "",
     sender_email |-> "", sender_password |-> "",
     opened |-> FALSE, open |-> FALSE, underlying |-> "ok", exc |-> NoExc]

send_recovery_email(self, recipient_email, username, env) ==
    LET session ==
            IF env.connect = "OSError" THEN
                \* no socket: nothing was opened
                [opened |-> FALSE, open |-> FALSE, exc |-> env.connect]
            ELSE IF env.connect = "SMTPConnectError" THEN
                \* SMTP.__init__ closes the socket before it raises
                [opened |-> TRUE, open |-> FALSE, exc |-> env.connect]
            ELSE
                LET x == with_exit(with_body(env), env.quit)
                IN  [opened |-> TRUE, open |-> x.open, exc |-> x.exc]
    IN  [called |-> TRUE, recipient |-> recipient_email, username |-> username,
         sender_email |-> self.sender_email, sender_password |-> self.sender_password,
         opened |-> session.opened, open |-> session.open,
         underlying |-> session.exc, exc |-> translate(session.exc)]

----------------------------------------------------------------------------
\* RecoveryWindow.

\* A slip one could make: the configuration error is reported and swallowed,
\* and the sender is built from whatever the file held.
init_swallows_error(file) ==
    LET loaded == load_config(file)
    IN  [window |-> "Idle",
         email_sender |-> [set |-> TRUE,
                           sender_email |-> loaded.config.sender_email.s,
                           sender_password |-> loaded.config.sender_password.s],
         notifications |->
            IF loaded.exc = NoExc THEN loaded.notes
            ELSE show_message(loaded.notes, "Configuration Error", "", loaded.exc),
         raised |-> NoExc]

\* RecoveryWindow.__init__ from the try block on
init_window(file) ==
    LET loaded == load_config(file)
    IN  IF loaded.exc # NoExc THEN
            [window |-> "failed", email_sender |-> NoSender,
             notifications |->
                show_message(loaded.notes, "Configuration Error", "", loaded.exc),
             raised |-> loaded.exc]
        ELSE IF missing_credentials(get(loaded.config.sender_email),
                                    get(loaded.config.sender_password)) THEN
            LET e == Exc("EmailConfigError",
                         "Missing email or password in configuration file.", "")
            IN  [window |-> "failed", email_sender |-> NoSender,
                 notifications |->
                    show_message(show_message(loaded.notes, "Configuration Error",
                        "Missing email or password in configuration file.", NoExc),
                        "Configuration Error", "", e),
                 raised |-> e]
        ELSE
            [window |-> "Idle",
             email_sender |-> [set |-> TRUE,
                               sender_email |-> loaded.config.sender_email.s,
                               sender_password |-> loaded.config.sender_password.s],
             notifications |-> loaded.notes,
             raised |-> NoExc]

\* A slip one could make: the window is left open after a successful send.
send_succeeded_stays_open(text, notes, s) ==
    [window |-> "Idle", email_input |-> text,
     notifications |-> show_message(notes, "Success",
                                    "A recovery email has been sent.", NoExc),
     raised |-> NoExc, send |-> s]

\* the try block after send_recovery_email returned
send_succeeded(text, notes, s) ==
    [window |-> "Closed", email_input |-> text,
     notifications |-> show_message(notes, "Success",
                                    "A recovery email has been sent.", NoExc),
     raised |-> NoExc, send |-> s]

\* A slip one could make: the input is cleared as on the not-found path.
send_failed_clears_input(text, notes, s) ==
    [window |-> "Idle", email_input |-> <<>>,
     notifications |-> show_message(notes, "Error", "", s.exc),
     raised |-> NoExc, send |-> s]

\* except Exception as e: show_message(self, "Error", str(e))
send_failed(text, notes, s) ==
    [window |-> "Idle", email_input |-> text,
     notifications |-> show_message(notes, "Error", "", s.exc),
     raised |-> NoExc, send |-> s]

\* the else branch of "if user:"
user_falsy(text, notes) ==
    [window |-> "Idle", email_input |-> <<>>,
     notifications |-> show_message(notes, "Error",
                                    "Email not found. Please try again.", NoExc),
     raised |-> NoExc, send |-> NoSend]

\* recover_password: what the handler leaves behind
recover_password_run(text, self, file, env) ==
    LET email == text
        found == find_user_by_email(email, file)
        user  == found.username
    IN  IF found.exc # NoExc THEN
            \* UserNotFoundError is not caught here
            [window |-> "Idle", email_input |-> text,
             notifications |-> found.notes, raised |-> found.exc, send |-> NoSend]
        ELSE IF user # "" THEN
            LET s == send_recovery_email(self, email, user, env)
            IN  IF s.exc = NoExc THEN send_succeeded(text, found.notes, s)
                ELSE send_failed(text, found.notes, s)
        ELSE user_falsy(text, found.notes)

----------------------------------------------------------------------------
\* The window: construction, typing, the button.

NoCall == [op |-> "none", text |-> <<>>]

NoResult ==
    [exc |-> NoExc, username |-> "", data |-> <<>>, config |-> NoConfig, notes |-> <<>>]

Init ==
    /\ configFile \in ConfigFiles
    /\ dbFile \in DbFiles
    /\ window = "unconstructed"
    /\ email_input = <<>>
    /\ email_sender = NoSender
    /\ notifications = <<>>
    /\ raised = NoExc
    /\ send = NoSend
    /\ call = NoCall
    /\ result = NoResult

\* RecoveryWindow()
Construct ==
    /\ window = "unconstructed"
    /\ LET w == init_window(configFile)
       IN  /\ window' = w.window
           /\ email_sender' = w.email_sender
           /\ notifications' = w.notifications
           /\ raised' = w.raised
    /\ call' = [op |-> "__init__", text |-> <<>>]
    /\ UNCHANGED <<configFile, dbFile, email_input, send, result>>

\* the operator edits the input field
SetText(t) ==
    /\ window = "Idle"
    /\ email_input' = t
    /\ call' = [op |-> "setText", text |-> t]
    /\ notifications' = <<>>
    /\ raised' = NoExc
    /\ send' = NoSend
    /\ UNCHANGED <<configFile, dbFile, window, email_sender, result>>

\* the operator clicks "Send Recovery Email"
recover_password(env) ==
    /\ window = "Idle"
    /\ LET r == recover_password_run(email_input, email_sender, dbFile, env)
       IN  /\ window' = r.window
           /\ email_input' = r.email_input
           /\ notifications' = r.notifications
           /\ raised' = r.raised
           /\ send' = r.send
    /\ call' = [op |-> "recover_password", text |-> email_input]
    /\ UNCHANGED <<configFile, dbFile, email_sender, result>>

Next ==
    \/ Construct
    \/ \E t \in Texts : SetText(t)
    \/ \E env \in SmtpEnvs : recover_password(env)

Spec == Init /\ [][Next]_vars

----------------------------------------------------------------------------
\* The functions called on their own: load_config, validate_users_db,
\* load_users_db and find_user_by_email are a module function and static
\* methods, and need no window.

InitUnits ==
    /\ \/ configFile \in ConfigFiles /\ dbFile = [kind |-> "missing", data |-> <<>>]
       \/ configFile = [kind |-> "missing", sender_email |-> Absent,
                        sender_password |-> Absent]
          /\ dbFile \in DbFiles
    /\ window = "unconstructed"
    /\ email_input = <<>>
    /\ email_sender = NoSender
    /\ notifications = <<>>
    /\ raised = NoExc
    /\ send = NoSend
    /\ call = NoCall
    /\ result = NoResult

CallLoadConfig ==
    /\ LET r == load_config(configFile)
       IN  result' = [NoResult EXCEPT !.exc = r.exc, !.config = r.config,
                                      !.notes = r.notes]
    /\ call' = [op |-> "load_config", text |-> <<>>]
    /\ UNCHANGED <<configFile, dbFile, window, email_input, email_sender,
                   notifications, raised, send>>

\* validate_users_db takes the parsed store
CallValidateUsersDb ==
    /\ dbFile.kind = "json"
    /\ result' = [NoResult EXCEPT !.exc = validate_users_db(dbFile.data)]
    /\ call' = [op |-> "validate_users_db", text |-> <<>>]
    /\ UNCHANGED <<configFile, dbFile, window, email_input, email_sender,
                   notifications, raised, send>>

CallLoadUsersDb ==
    /\ LET r == load_users_db(dbFile)
       IN  result' = [NoResult EXCEPT !.exc = r.exc, !.data = r.data,
                                      !.notes = r.notes]
    /\ call' = [op |-> "load_users_db", text |-> <<>>]
    /\ UNCHANGED <<configFile, dbFile, window, email_input, email_sender,
                   notifications, raised, send>>

CallFindUserByEmail(email) ==
    /\ LET r == find_user_by_email(email, dbFile)
       IN  result' = [NoResult EXCEPT !.exc = r.exc, !.username = r.username,
                                      !.notes = r.notes]
    /\ call' = [op |-> "find_user_by_email", text |-> email]
    /\ UNCHANGED <<configFile, dbFile, window, email_input, email_sender,
                   notifications, raised, send>>

NextUnits ==
    \/ CallLoadConfig
    \/ CallValidateUsersDb
    \/ CallLoadUsersDb
    \/ \E email \in Texts : CallFindUserByEmail(email)

SpecUnits == InitUnits /\ [][NextUnits]_vars

----------------------------------------------------------------------------
\* What the claims speak of, stated without the program's own functions.

\* two characters that differ at most in case
SameLetter(c, d) ==
    \/ c = d
    \/ {c, d} \in {{"a", "A"}, {"b", "B"}, {"x", "X"}}

\* s is t with whitespace added on either side
PaddingOf(s, t) ==
    \E l \in 0..Len(s) : \E r \in 0..(Len(s) - l) :
        /\ Len(t) = Len(s) - l - r
        /\ \A i \in 1..l : s[i] = " "
        /\ \A i \in (Len(s) - r + 1)..Len(s) : s[i] = " "
        /\ \A i \in 1..Len(t) : s[l + i] = t[i]

NoOuterSpace(t) == t = <<>> \/ (t[1] # " " /\ t[Len(t)] # " ")

\* a and b are equal once the surrounding whitespace is cut and case ignored
EqualNormalized(a, b) ==
    \E i \in 1..(Len(a) + 1) : \E j \in (i - 1)..Len(a) :
    \E k \in 1..(Len(b) + 1) : \E m \in (k - 1)..Len(b) :
        LET ta == SubSeq(a, i, j)
            tb == SubSeq(b, k, m)
        IN  /\ NoOuterSpace(ta) /\ PaddingOf(a, ta)
            /\ NoOuterSpace(tb) /\ PaddingOf(b, tb)
            /\ Len(ta) = Len(tb)
            /\ \A n \in 1..Len(ta) : SameLetter(ta[n], tb[n])

\* a record that breaks the store's schema
Offending(entry) ==
    \/ ~entry.details.has_email
    \/ ~entry.details.has_password_hash
    \/ ~email_regex(entry.details.email)

\* the store file holds a JSON object, and every record of it is valid
WellFormed(file) ==
    file.kind = "json" /\ \A i \in 1..Len(file.data) : ~Offending(file.data[i])

\* the records a lookup of text can see: none when the load failed
Visible(file) == IF WellFormed(file) THEN file.data ELSE <<>>

Matching(text, file) ==
    {i \in 1..Len(Visible(file)) :
        EqualNormalized(Visible(file)[i].details.email, text)}

\* every notification but the one of a successful send reports an error
IsError(n) == n.title # "Success"

Submitted == call.op = "recover_password"

----------------------------------------------------------------------------
\* The claims.

\* C1: a submit whose normalized input matches no record of the loaded store
\* (blank input and a store that failed to load included) shows an error
\* notification, clears the input field and stays in Idle.
C1_NotFoundNotifiesAndClears ==
    (Submitted /\ Matching(call.text, dbFile) = {})
        => /\ \E i \in 1..Len(notifications) : IsError(notifications[i])
           /\ email_input = <<>>
           /\ window = "Idle"

\* C2: no exception leaves recover_password, whatever the input, the store,
\* the lookup and the send do, and a notification has been shown when it
\* returns.
C2_NoExceptionEscapes ==
    Submitted => raised = NoExc /\ notifications # <<>>

\* C3: the send_recovery_email call of a submit whose lookup succeeded gets
\* the matching record's stored email, the email the lookup resolved, and that
\* record's username, also when the input differs from the stored email in
\* case or surrounding whitespace.
C3_SendGetsResolvedEmail ==
    (Submitted /\ send.called /\ Matching(call.text, dbFile) # {})
        => LET M == Matching(call.text, dbFile)
               first == CHOOSE i \in M : \A j \in M : i <= j
           IN  /\ send.recipient = dbFile.data[first].details.email
               /\ send.username = dbFile.data[first].username

\* C4: a submit whose lookup succeeds and whose send fails shows an error
\* notification carrying the failure's message, leaves the window in Idle and
\* leaves the text of the input field as it was.
C4_SendFailureKeepsInput ==
    (Submitted /\ send.called /\ send.underlying # "ok")
        => /\ notifications # <<>>
           /\ notifications[Len(notifications)] =
                 [title |-> "Error", text |-> "", e |-> send.exc]
           /\ send.exc.exc = "EmailSendingError"
           /\ window = "Idle"
           /\ email_input = call.text
           /\ raised = NoExc

C4_Witness ==
    /\ Submitted
    /\ send.called
    /\ send.underlying = "SMTPAuthenticationError"
    /\ email_input # <<>>
    /\ window = "Idle"

\* C5: a submit whose send returns without error shows a success notification
\* and closes the window, and the window is Closed only after a send that
\* succeeded.
C5_ClosedIffSendSucceeded ==
    /\ (Submitted /\ send.called /\ send.underlying = "ok")
          => /\ window = "Closed"
             /\ notifications # <<>>
             /\ notifications[Len(notifications)].title = "Success"
    /\ window = "Closed"
          => Submitted /\ send.called /\ send.underlying = "ok"

C5_Witness ==
    window = "Closed" /\ send.called /\ send.username = "alice"

\* C6, as stated: load_users_db of a store with an offending record fails to
\* its caller with DatabaseError naming the offending username.
C6_LoadFailsWithStoreError ==
    (call.op = "load_users_db" /\ dbFile.kind = "json"
        /\ \E i \in 1..Len(dbFile.data) : Offending(dbFile.data[i]))
        => /\ result.exc.exc = "DatabaseError"
           /\ \E i \in 1..Len(dbFile.data) :
                 Offending(dbFile.data[i]) /\ result.exc.arg = dbFile.data[i].username

\* C6, amended: for a store with an offending record, validate_users_db raises
\* DatabaseError naming the first offending username in iteration order;
\* load_users_db catches it, shows an error notification carrying it and
\* returns the empty mapping, never a part of the store's records.
C6_InvalidStoreLoadsEmpty ==
    (dbFile.kind = "json" /\ \E i \in 1..Len(dbFile.data) : Offending(dbFile.data[i]))
        => LET bad == {i \in 1..Len(dbFile.data) : Offending(dbFile.data[i])}
               first == CHOOSE i \in bad : \A j \in bad : i <= j
           IN  /\ call.op = "validate_users_db"
                    => /\ result.exc.exc = "DatabaseError"
                       /\ result.exc.arg = dbFile.data[first].username
               /\ call.op = "load_users_db"
                    => /\ result.exc = NoExc
                       /\ result.data = <<>>
                       /\ Len(result.notes) = 1
                       /\ result.notes[1].e.exc = "DatabaseError"
                       /\ result.notes[1].e.arg = dbFile.data[first].username

C6_Witness ==
    /\ call.op = "load_users_db"
    /\ dbFile.kind = "json"
    /\ Len(dbFile.data) = 2
    /\ ~Offending(dbFile.data[1])
    /\ Offending(dbFile.data[2])
    /\ result.data = <<>>

\* C7: load_config fails with EmailConfigError whenever sender_email or
\* sender_password is absent or empty, and returns the configuration exactly
\* when both are present and non-empty.
C7_ConfigNeedsBothFields ==
    call.op = "load_config"
        => LET present(v) == v.tag = "str" /\ v.s # ""
               both == /\ configFile.kind = "json"
                       /\ present(configFile.sender_email)
                       /\ present(configFile.sender_password)
           IN  /\ ~both => result.exc.exc = "EmailConfigError"
               /\ both => /\ result.exc = NoExc
                          /\ result.config.sender_email = configFile.sender_email
                          /\ result.config.sender_password = configFile.sender_password

C7_Witness ==
    /\ call.op = "load_config"
    /\ configFile.kind = "json"
    /\ configFile.sender_email = Str("me@g.c")
    /\ configFile.sender_password = Str("")
    /\ result.exc.exc = "EmailConfigError"

C9_ConnectionClosedOnEveryExit ==
    send.called
        => /\ ~send.open
           /\ send.underlying # "ok" => send.exc.exc = "EmailSendingError"
           /\ send.underlying = "ok" => send.exc = NoExc

C9_Witness ==
    /\ send.called
    /\ send.opened
    /\ send.underlying = "SMTPRecipientsRefused"
    /\ ~send.open

\* C10: when the configuration cannot be loaded the constructor reports the
\* error and re-raises EmailConfigError, no EmailSender exists and no send is
\* ever attempted from that window; every send uses credentials that were both
\* non-empty at construction.
C10_NoSenderWithoutCredentials ==
    LET present(v) == v.tag = "str" /\ v.s # ""
        usable == /\ configFile.kind = "json"
                  /\ present(configFile.sender_email)
                  /\ present(configFile.sender_password)
    IN  /\ (window # "unconstructed" /\ ~usable) => window = "failed"
        /\ window = "failed"
              => /\ raised.exc = "EmailConfigError"
                 /\ notifications # <<>>
                 /\ notifications[Len(notifications)].e = raised
                 /\ ~email_sender.set
                 /\ ~send.called
        /\ send.called
              => /\ email_sender.set
                 /\ usable
                 /\ send.sender_email = configFile.sender_email.s
                 /\ send.sender_password = configFile.sender_password.s
                 /\ send.sender_email # "" /\ send.sender_password # ""

C10_Witness ==
    /\ window = "failed"
    /\ configFile.kind = "json"
    /\ configFile.sender_email = Str("me@g.c")
    /\ configFile.sender_password = Absent
    /\ raised.exc = "EmailConfigError"

====
